---- MODULE Spec2Model ----
(***************************************************************************)
(* Candidate-ranking pipeline of CVastian / CVButler.                      *)
(*                                                                         *)
(*   Spec      the FastAPI backend (src/backend/main.py) over the JSON     *)
(*             DataStore (src/utils/data_models.py) and the keyword        *)
(*             scorer (src/utils/llm_wrapper.py)                           *)
(*   SpecUI    the resume batch loop of the monolithic Streamlit script    *)
(*             (src/app.py)                                                *)
(*   SpecScore the pure functions: the two scoring strategies, the         *)
(*             redactor, the job-text condenser and one call of the        *)
(*             inference client                                            *)
(*   SpecRuns  analyze_candidates requests in flight together on the       *)
(*             backend's event loop                                        *)
(***************************************************************************)
EXTENDS Integers, Sequences, FiniteSets, TLC

VARIABLES
    \* ---- backend: the three JSON record sets and the last HTTP response
    jobs,            \* data/jobs.json            : sequence of JobDescription
    resumes,         \* data/resumes.json         : sequence of Resume
    rankings,        \* data/rankings_<job>.json  : job id -> sequence of CandidateRanking
    nextId,          \* number of uuid4 values drawn so far
    resp,            \* response of the last request
    uploadedText,    \* history: text extracted from each file of the last resume upload
    \* ---- monolithic UI: one processing pass over the uploaded resumes
    gemini_configured,
    resume_files,    \* st.file_uploader value of the running pass
    futures,         \* index -> "pending" | "running" | "done" | "failed"
    early,           \* futures already finished when as_completed() was entered
    finishedQ,       \* futures finished afterwards, in completion order
    yielded,         \* futures handed out by as_completed(), in order
    session,         \* st.session_state: the four per-candidate maps
    progress,        \* values passed to the progress display during the pass
    ui_pc,           \* position of the script run
    passes,          \* number of script runs started
    \* ---- scorer as a pure function
    sc_in,
    sc_out,
    \* ---- analyze_candidates requests in flight on the server's event loop
    runs,            \* request -> position and local variables of its coroutine
    loop,            \* the request whose coroutine is running (0: loop idle)
    scoreLog         \* history: the (job id, resume id) pairs handed to the scorer

backendVars == <<jobs, resumes, rankings, nextId, resp, uploadedText>>
uiVars == <<gemini_configured, resume_files, futures, early, finishedQ, yielded,
            session, progress, ui_pc, passes>>
scoreVars == <<sc_in, sc_out>>
runVars == <<runs, loop, scoreLog>>
vars == <<jobs, resumes, rankings, nextId, resp, uploadedText,
          gemini_configured, resume_files, futures, early, finishedQ, yielded,
          session, progress, ui_pc, passes, sc_in, sc_out, runs, loop, scoreLog>>

-----------------------------------------------------------------------------
(* Bounds *)

MaxId == 6
MaxResumes == 2
MaxLimit == 2
MaxFiles == 3
MaxPasses == 2
MaxWords == 2
MaxTokens == 3
MaxSentences == 2
MaxRuns == 2

-----------------------------------------------------------------------------
(* Texts: a text is the sequence of its \w+ words *)

Words == {"Python", "python", "rust", "sql", "with"}

Lower(w) ==
    IF w = "Python" THEN "python" ELSE w

stopwords ==
    {"the", "and", "are", "but", "for", "not", "you", "all", "can", "her",
     "was", "one", "our", "had", "by", "hot", "some", "very", "from", "they",
     "know", "want", "been", "good", "their", "said", "each", "which", "she",
     "any", "that", "set", "may", "old", "such", "way", "after", "take",
     "how", "then", "will", "were", "see", "more", "two", "use", "has",
     "too", "your", "him", "its", "his", "who", "did", "get", "just", "let",
     "with", "into", "than", "out", "when", "look", "most", "this", "would",
     "have", "there", "what", "only", "come", "many", "could", "here",
     "over", "think", "them", "about", "like", "well", "should", "an",
     "work", "year", "where", "must", "first", "years"}

Range(s) == {s[i] : i \in 1..Len(s)}

\* an e-mail address, the one token of a text that is not a single \w+ word
Email == "jane@mail.com"

\* the \w+ runs of a token
WordsOf(token) ==
    IF token = Email THEN {"jane", "mail", "com"} ELSE {token}

\* set(re.findall(r'\b\w{4,}\b', text.lower()))
FindWords(text) ==
    {Lower(w) : w \in {x \in UNION {WordsOf(t) : t \in Range(text)} : Len(x) >= 4}}

GCD(a, b) ==
    CHOOSE g \in 1..(IF a > b THEN a ELSE b) :
        /\ a % g = 0
        /\ b % g = 0
        /\ \A h \in (g + 1)..(IF a > b THEN a ELSE b) : ~(a % h = 0 /\ b % h = 0)

\* the float n / d, kept as a reduced fraction (d > 0)
Frac(n, d) ==
    IF n = 0 THEN [num |-> 0, den |-> 1]
    ELSE LET g == GCD(IF n < 0 THEN -n ELSE n, d)
         IN [num |-> n \div g, den |-> d \div g]

Zero == Frac(0, 1)
One == Frac(1, 1)

ScoreLT(a, b) == a.num * b.den < b.num * a.den
ScoreGT(a, b) == ScoreLT(b, a)
ScoreLE(a, b) == ~ScoreLT(b, a)

\* a clamp that lets every value through
Clamp01_none(s) == s

\* min(1.0, max(0.0, score))
Clamp01(s) ==
    LET lo == IF ScoreLT(s, Zero) THEN Zero ELSE s
    IN IF ScoreLT(One, lo) THEN One ELSE lo

\* the orders in which list(a_set) can enumerate a set
Enumerations(S) ==
    {e \in [1..Cardinality(S) -> S] : \A i, j \in 1..Cardinality(S) : i # j => e[i] # e[j]}

\* a slice that keeps the whole list
Take_all(s, n) == s

\* the slice s[:n]; a negative n counts from the end of the list
Take(s, n) ==
    IF n >= 0 THEN SubSeq(s, 1, IF n < Len(s) THEN n ELSE Len(s))
    ELSE SubSeq(s, 1, IF Len(s) + n > 0 THEN Len(s) + n ELSE 0)

\* a scorer that computes the Jaccard similarity its comment announces
analyze_candidate_jaccard(job_desc, resume_text, order) ==
    LET job_keywords == FindWords(job_desc) \ stopwords
        resume_words == FindWords(resume_text) \ stopwords
        matching_keywords == job_keywords \cap resume_words
        score == IF job_keywords = {} THEN Zero
                 ELSE Frac(Cardinality(matching_keywords),
                           Cardinality(job_keywords \cup resume_words))
    IN [score |-> Clamp01(score),
        explanation |-> [kind |-> "keyword", matched |-> Cardinality(matching_keywords),
                         total |-> Cardinality(job_keywords)],
        citations |-> Take(order, 5)]

\* a scorer that cites every matching keyword
analyze_candidate_uncapped(job_desc, resume_text, order) ==
    LET job_keywords == FindWords(job_desc) \ stopwords
        resume_words == FindWords(resume_text) \ stopwords
        matching_keywords == job_keywords \cap resume_words
        score == IF job_keywords = {} THEN Zero
                 ELSE Frac(Cardinality(matching_keywords), Cardinality(job_keywords))
    IN [score |-> Clamp01(score),
        explanation |-> [kind |-> "keyword", matched |-> Cardinality(matching_keywords),
                         total |-> Cardinality(job_keywords)],
        citations |-> order]

\* LLMManager.analyze_candidate; order is the enumeration list() makes of
\* the matching keywords
analyze_candidate(job_desc, resume_text, order) ==
    LET job_keywords == FindWords(job_desc) \ stopwords
        resume_words == FindWords(resume_text) \ stopwords
        matching_keywords == job_keywords \cap resume_words
        score == IF job_keywords = {} THEN Zero
                 ELSE Frac(Cardinality(matching_keywords), Cardinality(job_keywords))
    IN [score |-> Clamp01(score),
        explanation |-> [kind |-> "keyword", matched |-> Cardinality(matching_keywords),
                         total |-> Cardinality(job_keywords)],
        citations |-> Take(order, 5)]

MatchingKeywords(job_desc, resume_text) ==
    (FindWords(job_desc) \ stopwords) \cap (FindWords(resume_text) \ stopwords)

-----------------------------------------------------------------------------
(* Backend *)

\* a redactor that replaces the first e-mail address of the text only
anonymize_text_first_only(text) ==
    LET at == {k \in 1..Len(text) : text[k] = Email}
    IN IF at = {} THEN text
       ELSE [text EXCEPT ![CHOOSE a \in at : \A k \in at : a <= k] = "[REDACTED_EMAIL]"]

\* anonymize_text: the pipeline is disabled, the text is returned as it came
anonymize_text(text) == text

\* a or b on two strings
StrOr(a, b) == IF a # <<>> THEN a ELSE b

Texts == {<<>>, <<"Python", "sql", "with", Email>>}

\* an uploaded file: its name and what extract_text_from_file returns for it
\* ("" when the document cannot be parsed)
Uploads ==
    {[filename |-> "alice.pdf", text |-> <<"Python", "sql", "with", Email>>],
     [filename |-> "bob.docx", text |-> <<>>]}

NoResp ==
    [op |-> "none", job_id |-> 0, status |-> 0, detail |-> "", rows |-> <<>>,
     total |-> 0, scored |-> 0, limit |-> 0]

\* the last exchange: the request (op, job id, limit of a served get_results)
\* and its answer
Response(op, j, status, detail, rows, total, scored) ==
    [op |-> op, job_id |-> j, status |-> status, detail |-> detail, rows |-> rows,
     total |-> total, scored |-> scored, limit |-> 0]

\* DataStore.load_rankings: a missing file reads as []
load_rankings(job_id) ==
    IF job_id \in DOMAIN rankings THEN rankings[job_id] ELSE <<>>

\* a save_rankings that appends to the file instead of rewriting it
save_rankings_append(job_id, rs) ==
    [j \in DOMAIN rankings \cup {job_id} |->
        IF j = job_id THEN load_rankings(job_id) \o rs ELSE rankings[j]]

\* a save_rankings that stamps every ranking it writes with the time of the
\* newest one
save_rankings_restamp(job_id, rs) ==
    [j \in DOMAIN rankings \cup {job_id} |->
        IF j = job_id
        THEN [k \in 1..Len(rs) |-> [rs[k] EXCEPT !.created_at = rs[Len(rs)].created_at]]
        ELSE rankings[j]]

\* DataStore.save_rankings: the file of the job is rewritten
save_rankings(job_id, rs) ==
    [j \in DOMAIN rankings \cup {job_id} |-> IF j = job_id THEN rs ELSE rankings[j]]

\* a save_jobs that keeps the jobs already in the file
save_jobs_append(js) == jobs \o js

\* DataStore.save_jobs: the file is rewritten with the list given
save_jobs(js) == js

\* a save_resumes that skips the write of an empty list
save_resumes_skip_empty(rs) == IF rs = <<>> THEN resumes ELSE rs

\* DataStore.save_resumes: the file is rewritten with the list given
save_resumes(rs) == rs

\* next(j for j in jobs if j.id == job_id): positions of the matching jobs
FindJob(job_id) ==
    {k \in 1..Len(jobs) : jobs[k].id = job_id}

InitBackend ==
    /\ jobs = <<>>
    /\ resumes = <<>>
    /\ rankings = <<>>
    /\ nextId = 0
    /\ resp = NoResp
    /\ uploadedText = <<>>

\* CandidateRanking.citations is declared List[Dict[str, Any]]: pydantic
\* rejects a list that holds keyword strings, so only [] validates
CitationsValid(citations) == Len(citations) = 0

\* the ranking built in analyze_candidates. created_at is datetime.now(): the
\* instant of creation, told apart by the number of identifiers drawn so far.
\* Saving writes a float and str(datetime), loading parses both back to the
\* values written
CandidateRanking(id, job_id, resume_id, analysis) ==
    [id |-> id, job_id |-> job_id, resume_id |-> resume_id,
     score |-> analysis.score, explanation |-> analysis.explanation,
     citations |-> analysis.citations, created_at |-> id,
     model_used |-> "keyword-matching"]

\* sorted(rows, key=score)[::-1]: highest score first, equal scores reversed
SortByScore_reversed(rows) ==
    LET Pos(i) == Cardinality({j \in 1..Len(rows) :
                      \/ ScoreGT(rows[j].score, rows[i].score)
                      \/ rows[j].score = rows[i].score /\ j > i}) + 1
    IN [p \in 1..Len(rows) |-> rows[CHOOSE i \in 1..Len(rows) : Pos(i) = p]]

\* list.sort(key=score, reverse=True): stable, highest score first. A row
\* comes after the rows of higher score and after the earlier rows of equal
\* score
SortByScore(rows) ==
    LET Pos(i) == Cardinality({j \in 1..Len(rows) :
                      \/ ScoreGT(rows[j].score, rows[i].score)
                      \/ rows[j].score = rows[i].score /\ j < i}) + 1
    IN [p \in 1..Len(rows) |-> rows[CHOOSE i \in 1..Len(rows) : Pos(i) = p]]

\* how the two writes of upload_job_description end: both succeed, or one of
\* them raises OSError, in open() with the file untouched or in json.dump
\* after open(..., 'w') has truncated the file
WriteOutcomes == {"ok", "jobs_open", "jobs_dump", "resumes_open", "resumes_dump"}

\* POST /api/jobs/upload
upload_job_description(filename, filetext, text, io) ==
    /\ LET job_id == nextId + 1
           provided == filename # "" \/ text # <<>>
           extracted_text == IF filename # "" THEN filetext ELSE text
           job == [id |-> job_id, text |-> extracted_text,
                   filename |-> IF filename # "" THEN filename ELSE "text_input.txt",
                   anonymized_text |-> anonymize_text(extracted_text)]
       IN /\ nextId' = job_id
          /\ IF ~provided
             THEN /\ UNCHANGED <<jobs, resumes, uploadedText>>
                  /\ resp' = Response("upload_job", job_id, 500,
                                      "Either file or text must be provided", <<>>, 0, 0)
             ELSE IF io = "ok"
             THEN /\ jobs' = save_jobs(<<job>>)
                  /\ resumes' = save_resumes(<<>>)
                  /\ uploadedText' = <<>>
                  /\ resp' = Response("upload_job", job_id, 200, "", <<>>, 0, 0)
             ELSE \* a truncated or half-written file fails json.load, and the
                  \* load functions answer [] on any exception
                  /\ jobs' = IF io = "jobs_open" THEN jobs
                             ELSE IF io = "jobs_dump" THEN <<>>
                             ELSE save_jobs(<<job>>)
                  /\ resumes' = IF io = "resumes_dump" THEN <<>> ELSE resumes
                  /\ uploadedText' = IF io = "resumes_dump" THEN <<>> ELSE uploadedText
                  /\ resp' = Response("upload_job", job_id, 500, "OSError", <<>>, 0, 0)
    /\ UNCHANGED rankings
    /\ UNCHANGED <<uiVars, scoreVars, runVars>>

\* POST /api/resumes/upload
upload_resumes(files) ==
    /\ LET processed_resumes ==
               [i \in 1..Len(files) |->
                   [resume_id |-> nextId + i, filename |-> files[i].filename,
                    text_length |-> Len(files[i].text)]]
           current_resumes ==
               [i \in 1..Len(files) |->
                   [id |-> processed_resumes[i].resume_id,
                    original_filename |-> processed_resumes[i].filename,
                    extracted_text |-> <<>>,
                    anonymized_text |-> <<>>]]
       IN /\ resumes' = save_resumes(current_resumes)
          /\ resp' = Response("upload_resumes", 0, 200, "", processed_resumes,
                              Len(processed_resumes), 0)
    /\ nextId' = nextId + Len(files)
    /\ uploadedText' = [i \in 1..Len(files) |-> files[i].text]
    /\ UNCHANGED <<jobs, rankings>>
    /\ UNCHANGED <<uiVars, scoreVars, runVars>>

\* a skip test that never finds an existing ranking
already_analyzed_never(existing_rankings, resume) == {}

\* any(r.resume_id == resume.id for r in existing_rankings): positions of
\* the rankings of this resume
already_analyzed(existing_rankings, resume) ==
    {k \in 1..Len(existing_rankings) : existing_rankings[k].resume_id = resume.id}

\* a resume check that never reports an empty resume set
no_resumes_never(rs) == FALSE

\* "if not resumes" of analyze_candidates
no_resumes(rs) == Len(rs) = 0

\* the loop "for resume in resumes" of analyze_candidates, from resume i on
RECURSIVE AnalyzeLoop(_, _, _, _, _)
AnalyzeLoop(job, rs, orders, i, acc) ==
    IF i > Len(rs) \/ acc.err THEN acc
    ELSE LET resume == rs[i]
             found == already_analyzed(acc.existing_rankings, resume)
         IN IF found # {}
            THEN LET existing ==
                         acc.existing_rankings[CHOOSE k \in found : \A m \in found : k <= m]
                 IN AnalyzeLoop(job, rs, orders, i + 1,
                        [acc EXCEPT !.rankings = Append(@,
                            [resume_id |-> resume.id, filename |-> resume.original_filename,
                             score |-> existing.score, explanation |-> existing.explanation,
                             citations |-> existing.citations])])
            ELSE LET analysis == analyze_candidate(
                                     StrOr(job.anonymized_text, job.text),
                                     StrOr(resume.anonymized_text, resume.extracted_text),
                                     orders[i])
                     ranking == CandidateRanking(acc.nid + 1, job.id, resume.id, analysis)
                 IN IF ~CitationsValid(analysis.citations)
                    THEN [acc EXCEPT !.err = TRUE, !.nid = @ + 1, !.scored = @ + 1]
                    ELSE AnalyzeLoop(job, rs, orders, i + 1,
                        [acc EXCEPT !.existing_rankings = Append(@, ranking),
                                    !.nid = @ + 1,
                                    !.scored = @ + 1,
                                    !.rankings = Append(@,
                            [resume_id |-> resume.id, filename |-> resume.original_filename,
                             score |-> ranking.score, explanation |-> ranking.explanation,
                             citations |-> ranking.citations])])

\* the enumeration orders list(matching_keywords) can take, one per resume
CitationOrders(job, rs) ==
    LET M(i) == MatchingKeywords(StrOr(job.anonymized_text, job.text),
                                 StrOr(rs[i].anonymized_text, rs[i].extracted_text))
    IN {o \in [1..Len(rs) -> UNION {Enumerations(M(i)) : i \in 1..Len(rs)}] :
           \A i \in 1..Len(rs) : o[i] \in Enumerations(M(i))}

\* how the write of save_rankings ends, as for the writes of WriteOutcomes
RankingWriteOutcomes == {"ok", "rankings_open", "rankings_dump"}

\* POST /api/analyze/{job_id}
analyze_candidates(job_id, io) ==
    /\ IF FindJob(job_id) = {}
       THEN /\ resp' = Response("analyze", job_id, 500, "Job description not found",
                                <<>>, 0, 0)
            /\ UNCHANGED <<rankings, nextId>>
       ELSE IF no_resumes(resumes)
       THEN /\ resp' = Response("analyze", job_id, 500, "No resumes uploaded yet",
                                <<>>, 0, 0)
            /\ UNCHANGED <<rankings, nextId>>
       ELSE LET job == jobs[CHOOSE k \in FindJob(job_id) : \A m \in FindJob(job_id) : k <= m]
            IN \E orders \in CitationOrders(job, resumes) :
                 LET run == AnalyzeLoop(job, resumes, orders, 1,
                                [existing_rankings |-> load_rankings(job_id),
                                 rankings |-> <<>>, scored |-> 0, nid |-> nextId,
                                 err |-> FALSE])
                 IN /\ nextId' = run.nid
                    /\ IF run.err
                       THEN /\ resp' = Response("analyze", job_id, 500, "validation error",
                                                <<>>, 0, run.scored)
                            /\ UNCHANGED rankings
                       ELSE IF io # "ok"
                       THEN \* the except branch answers 500; a file that json.dump
                            \* left half-written loads as []
                            /\ resp' = Response("analyze", job_id, 500, "OSError",
                                                <<>>, 0, run.scored)
                            /\ rankings' = IF io = "rankings_open" THEN rankings
                                           ELSE save_rankings(job_id, <<>>)
                       ELSE /\ rankings' = save_rankings(job_id, run.existing_rankings)
                            /\ resp' = Response("analyze", job_id, 200, "",
                                                Take(SortByScore(run.rankings), 10),
                                                Len(run.rankings), run.scored)
    /\ UNCHANGED <<jobs, resumes, uploadedText>>
    /\ UNCHANGED <<uiVars, scoreVars, runVars>>

\* GET /api/jobs
list_jobs ==
    /\ resp' = Response("list_jobs", 0, 200, "",
                        [k \in 1..Len(jobs) |->
                            [job_id |-> jobs[k].id, filename |-> jobs[k].filename,
                             candidates_count |-> Len(load_rankings(jobs[k].id))]],
                        Len(jobs), 0)
    /\ UNCHANGED <<jobs, resumes, rankings, nextId, uploadedText>>
    /\ UNCHANGED <<uiVars, scoreVars, runVars>>

\* rows whose rank is the place of their ranking in the file
ResultRows_rank_by_place(job_id) ==
    LET rks == load_rankings(job_id)
        HasResume(k) == \E m \in 1..Len(resumes) : resumes[m].id = rks[k].resume_id
        kept == {k \in 1..Len(rks) : HasResume(k)}
        Nth(n) == CHOOSE k \in kept : Cardinality({m \in kept : m < k}) = n - 1
        UploadPosOf(resume_id) ==
            CHOOSE k \in 1..Len(resumes) :
                /\ resumes[k].id = resume_id
                /\ \A m \in 1..(k - 1) : resumes[m].id # resume_id
    IN [n \in 1..Cardinality(kept) |->
           [rank |-> Nth(n),
            resume_id |-> rks[Nth(n)].resume_id,
            filename |-> resumes[UploadPosOf(rks[Nth(n)].resume_id)].original_filename,
            score |-> rks[Nth(n)].score,
            explanation |-> rks[Nth(n)].explanation,
            citations |-> rks[Nth(n)].citations,
            model_used |-> rks[Nth(n)].model_used,
            analyzed_at |-> rks[Nth(n)].created_at]]

\* the rows get_results builds before sorting
ResultRows(job_id) ==
    LET rks == load_rankings(job_id)
        HasResume(ranking) == \E k \in 1..Len(resumes) : resumes[k].id = ranking.resume_id
        Row(ranking) ==
            LET resume == resumes[CHOOSE k \in 1..Len(resumes) :
                                     /\ resumes[k].id = ranking.resume_id
                                     /\ \A m \in 1..(k - 1) : resumes[m].id # ranking.resume_id]
            IN [rank |-> Cardinality({k \in 1..Len(rks) :
                                         ScoreGT(rks[k].score, ranking.score)}) + 1,
                resume_id |-> ranking.resume_id,
                filename |-> resume.original_filename,
                score |-> ranking.score,
                explanation |-> ranking.explanation,
                citations |-> ranking.citations,
                model_used |-> ranking.model_used,
                analyzed_at |-> ranking.created_at]
        kept == SelectSeq(rks, HasResume)
    IN [k \in 1..Len(kept) |-> Row(kept[k])]

\* GET /api/results/{job_id}?limit=
get_results(job_id, limit) ==
    /\ IF FindJob(job_id) = {}
       THEN resp' = Response("get_results", job_id, 404, "Job not found", <<>>, 0, 0)
       ELSE resp' = [Response("get_results", job_id, 200, "",
                              Take(SortByScore(ResultRows(job_id)), limit), 0, 0)
                        EXCEPT !.limit = limit]
    /\ UNCHANGED <<jobs, resumes, rankings, nextId, uploadedText>>
    /\ UNCHANGED <<uiVars, scoreVars, runVars>>

JobFileNames == {"", "job.html"}

ResumeBatches ==
    UNION {[1..n -> Uploads] : n \in 1..MaxResumes}

\* job ids a client can name: the stored job, every job that has a rankings
\* file, and an id that was never issued
RequestIds == {0} \cup {jobs[k].id : k \in 1..Len(jobs)} \cup DOMAIN rankings

\* the requests of a client against a store that takes every write; a run
\* draws at most MaxId identifiers
NextBackend ==
    \/ \E fn \in JobFileNames, ft \in Texts, t \in Texts :
           nextId < MaxId /\ upload_job_description(fn, ft, t, "ok")
    \/ \E files \in ResumeBatches :
           nextId + Len(files) <= MaxId /\ upload_resumes(files)
    \/ \E j \in RequestIds : analyze_candidates(j, "ok") /\ nextId' <= MaxId
    \/ list_jobs
    \/ \E j \in RequestIds, limit \in 0..MaxLimit : get_results(j, limit)

\* the same requests against a store whose writes can fail
NextIO ==
    \/ \E fn \in JobFileNames, ft \in Texts, t \in Texts, io \in WriteOutcomes :
           nextId < MaxId /\ upload_job_description(fn, ft, t, io)
    \/ \E files \in ResumeBatches :
           nextId + Len(files) <= MaxId /\ upload_resumes(files)
    \/ \E j \in RequestIds, io \in RankingWriteOutcomes :
           analyze_candidates(j, io) /\ nextId' <= MaxId
    \/ list_jobs
    \/ \E j \in RequestIds, limit \in 0..MaxLimit : get_results(j, limit)

InitUIIdle ==
    /\ gemini_configured = FALSE
    /\ resume_files = <<>>
    /\ futures = <<>>
    /\ early = {}
    /\ finishedQ = <<>>
    /\ yielded = <<>>
    /\ session = [anonymized_resumes |-> <<>>, original_resumes |-> <<>>,
                  resume_names |-> <<>>, original_file_data |-> <<>>]
    /\ progress = <<>>
    /\ ui_pc = "idle"
    /\ passes = 0

InitScoreIdle ==
    /\ sc_in = <<>>
    /\ sc_out = <<>>

NoJob == [id |-> 0, text |-> <<>>, filename |-> "", anonymized_text |-> <<>>]

NoAcc == [existing_rankings |-> <<>>, rankings |-> <<>>, scored |-> 0, nid |-> 0,
          err |-> FALSE]

\* a request slot that has not been used
IdleRun ==
    [pc |-> "idle", job_id |-> 0, job |-> NoJob, resumes |-> <<>>, i |-> 0, acc |-> NoAcc,
     status |-> 0, overlaps |-> {}]

InitRunsIdle ==
    /\ runs = [r \in 1..MaxRuns |-> IdleRun]
    /\ loop = 0
    /\ scoreLog = <<>>

Init ==
    /\ InitBackend
    /\ InitUIIdle
    /\ InitScoreIdle
    /\ InitRunsIdle

Next == NextBackend

Spec == Init /\ [][Next]_vars

SpecIO == Init /\ [][NextIO]_vars

-----------------------------------------------------------------------------
(* Backend under batches that exceed the ten rows of an analysis response *)

TopBatch == 11

\* uploads of ten and of more than ten resumes
BigBatches ==
    {[i \in 1..n |-> [filename |-> "bob.docx", text |-> <<>>]] :
        n \in {TopBatch - 1, TopBatch}}

\* a job, one batch and its rankings draw 2 * TopBatch + 1 identifiers
NextBatch ==
    \/ \E t \in Texts \ {<<>>} :
           nextId < 2 * TopBatch + 2 /\ upload_job_description("", <<>>, t, "ok")
    \/ \E files \in BigBatches :
           nextId + Len(files) <= 2 * TopBatch + 2 /\ upload_resumes(files)
    \/ \E j \in RequestIds :
           analyze_candidates(j, "ok") /\ nextId' <= 2 * TopBatch + 2
    \/ list_jobs
    \/ \E j \in RequestIds, limit \in (-1)..(TopBatch + 1) : get_results(j, limit)

SpecBatch == Init /\ [][NextBatch]_vars

-----------------------------------------------------------------------------
(* analyze_candidates requests that are in flight together. Each request is  *)
(* a coroutine of the one event loop uvicorn.run(app) starts; the handler is *)
(* "async def" and holds no await, so once the loop has started a coroutine  *)
(* it runs it to its return before it starts another                         *)

\* an event loop that resumes any coroutine at any step (the handlers run in
\* threads)
may_run_always(r) == TRUE

\* the loop can run the coroutine of request r: it is idle, or r is the
\* coroutine it is running
may_run(r) == loop = 0 \/ loop = r

InFlight == {q \in 1..MaxRuns : runs[q].pc \in {"pending", "scoring"}}

\* a POST /api/analyze/{job_id} arrives and its coroutine is queued
RunStart(r, job_id) ==
    /\ runs[r].pc = "idle"
    /\ \A q \in 1..(r - 1) : runs[q].pc # "idle"
    /\ runs' = [q \in 1..MaxRuns |->
                  IF q = r THEN [IdleRun EXCEPT !.pc = "pending", !.job_id = job_id,
                                                !.overlaps = InFlight]
                  ELSE IF q \in InFlight THEN [runs[q] EXCEPT !.overlaps = @ \cup {r}]
                  ELSE runs[q]]
    /\ UNCHANGED <<loop, scoreLog>>
    /\ UNCHANGED <<backendVars, uiVars, scoreVars>>

\* lines 193-207 of analyze_candidates: the job, the resumes and the
\* existing rankings are loaded
RunLoad(r) ==
    /\ runs[r].pc = "pending"
    /\ may_run(r)
    /\ LET job_id == runs[r].job_id
       IN IF FindJob(job_id) = {}
          THEN /\ runs' = [runs EXCEPT ![r].pc = "done", ![r].status = 500]
               /\ resp' = Response("analyze", job_id, 500, "Job description not found",
                                   <<>>, 0, 0)
               /\ loop' = 0
          ELSE IF no_resumes(resumes)
          THEN /\ runs' = [runs EXCEPT ![r].pc = "done", ![r].status = 500]
               /\ resp' = Response("analyze", job_id, 500, "No resumes uploaded yet",
                                   <<>>, 0, 0)
               /\ loop' = 0
          ELSE /\ runs' = [runs EXCEPT
                               ![r].pc = "scoring",
                               ![r].job = jobs[CHOOSE k \in FindJob(job_id) :
                                                  \A m \in FindJob(job_id) : k <= m],
                               ![r].resumes = resumes,
                               ![r].i = 1,
                               ![r].acc = [NoAcc EXCEPT
                                              !.existing_rankings = load_rankings(job_id)]]
               /\ loop' = r
               /\ UNCHANGED resp
    /\ UNCHANGED <<jobs, resumes, rankings, nextId, uploadedText, scoreLog>>
    /\ UNCHANGED <<uiVars, scoreVars>>

\* one iteration of "for resume in resumes" (lines 211-253)
RunScore(r) ==
    /\ runs[r].pc = "scoring"
    /\ may_run(r)
    /\ runs[r].i <= Len(runs[r].resumes)
    /\ \E orders \in CitationOrders(runs[r].job, runs[r].resumes) :
         LET i == runs[r].i
             acc == AnalyzeLoop(runs[r].job, SubSeq(runs[r].resumes, 1, i), orders, i,
                                [runs[r].acc EXCEPT !.nid = nextId])
         IN /\ acc.nid <= MaxId
            /\ nextId' = acc.nid
            /\ scoreLog' = IF acc.scored > runs[r].acc.scored
                           THEN Append(scoreLog, <<runs[r].job_id, runs[r].resumes[i].id>>)
                           ELSE scoreLog
            /\ IF acc.err
               THEN /\ runs' = [runs EXCEPT ![r].pc = "done", ![r].status = 500,
                                            ![r].acc = acc]
                    /\ resp' = Response("analyze", runs[r].job_id, 500, "validation error",
                                        <<>>, 0, acc.scored)
                    /\ loop' = 0
               ELSE /\ runs' = [runs EXCEPT ![r].i = i + 1, ![r].acc = acc]
                    /\ loop' = r
                    /\ UNCHANGED resp
    /\ UNCHANGED <<jobs, resumes, rankings, uploadedText>>
    /\ UNCHANGED <<uiVars, scoreVars>>

\* lines 255-266: the rankings are saved and the sorted rows returned
RunSave(r) ==
    /\ runs[r].pc = "scoring"
    /\ may_run(r)
    /\ runs[r].i > Len(runs[r].resumes)
    /\ rankings' = save_rankings(runs[r].job_id, runs[r].acc.existing_rankings)
    /\ resp' = Response("analyze", runs[r].job_id, 200, "",
                        Take(SortByScore(runs[r].acc.rankings), 10),
                        Len(runs[r].acc.rankings), runs[r].acc.scored)
    /\ runs' = [runs EXCEPT ![r].pc = "done", ![r].status = 200]
    /\ loop' = 0
    /\ UNCHANGED <<jobs, resumes, nextId, uploadedText, scoreLog>>
    /\ UNCHANGED <<uiVars, scoreVars>>

\* an upload handler is a coroutine of the same loop; the uploads that
\* stand between the analysis requests are pasted job texts whose writes
\* succeed
UploadJob ==
    /\ loop = 0
    /\ nextId < MaxId
    /\ \E t \in Texts \ {<<>>} : upload_job_description("", <<>>, t, "ok")

UploadResumes ==
    /\ loop = 0
    /\ \E files \in ResumeBatches :
           nextId + Len(files) <= MaxId /\ upload_resumes(files)

NextRuns ==
    \/ UploadJob
    \/ UploadResumes
    \/ \E r \in 1..MaxRuns, j \in RequestIds : RunStart(r, j)
    \/ \E r \in 1..MaxRuns : RunLoad(r)
    \/ \E r \in 1..MaxRuns : RunScore(r)
    \/ \E r \in 1..MaxRuns : RunSave(r)

SpecRuns == Init /\ [][NextRuns]_vars

-----------------------------------------------------------------------------
(* Monolithic UI: the resume batch loop of src/app.py *)

max_workers == 4

\* f"{n:03d}"
Pad3(n) ==
    IF n < 10 THEN "00" \o ToString(n)
    ELSE IF n < 100 THEN "0" \o ToString(n)
    ELSE ToString(n)

\* f"Candidate{i+1:03d}" for the enumerate index i
CandidateId(i) == "Candidate" \o Pad3(i + 1)

\* an uploaded resume file; readable is FALSE for a document on which text
\* extraction raises
ResumeFiles ==
    {[name |-> "alice.pdf", readable |-> TRUE],
     [name |-> "bob.docx", readable |-> TRUE],
     [name |-> "carol.pdf", readable |-> FALSE]}

UIBatches(n) ==
    {b \in UNION {[1..k -> ResumeFiles] : k \in 1..n} :
        \A i, j \in 1..Len(b) : i # j => b[i] # b[j]}

\* what process_resume(resume, candidate_id) returns
process_resume(resume, candidate_id) ==
    [resume_name |-> resume.name,
     anonymized_text |-> [anonymized |-> resume.name, prompt_id |-> candidate_id],
     original_text |-> [text_of |-> resume.name],
     file_data |-> [bytes_of |-> resume.name]]

\* process_resume raises: the document cannot be opened, or anonymized_text
\* is unbound because no model is configured
process_resume_raises(resume) ==
    ~resume.readable \/ ~gemini_configured

Finished(i) == futures[i] \in {"done", "failed"}

Put(map, key, value) ==
    [k \in DOMAIN map \cup {key} |-> IF k = key THEN value ELSE map[k]]

InitUI ==
    /\ gemini_configured \in BOOLEAN
    /\ resume_files = <<>>
    /\ futures = <<>>
    /\ early = {}
    /\ finishedQ = <<>>
    /\ yielded = <<>>
    /\ session = [anonymized_resumes |-> <<>>, original_resumes |-> <<>>,
                  resume_names |-> <<>>, original_file_data |-> <<>>]
    /\ progress = <<>>
    /\ ui_pc = "idle"
    /\ passes = 0

\* a script run with resume_files set: every file is submitted to the pool
SubmitAll(files) ==
    /\ ui_pc \in {"idle", "done", "aborted"}
    /\ \A i \in 1..Len(futures) : Finished(i)
    /\ passes < MaxPasses
    /\ passes' = passes + 1
    /\ resume_files' = files
    /\ futures' = [i \in 1..Len(files) |-> "pending"]
    /\ early' = {}
    /\ finishedQ' = <<>>
    /\ yielded' = <<>>
    /\ progress' = <<>>
    /\ ui_pc' = "submitted"
    /\ UNCHANGED <<gemini_configured, session>>
    /\ UNCHANGED <<backendVars, scoreVars, runVars>>

\* a free worker thread takes the oldest queued work item
WorkerStart(i) ==
    /\ i \in 1..Len(futures)
    /\ futures[i] = "pending"
    /\ \A k \in 1..(i - 1) : futures[k] # "pending"
    /\ Cardinality({k \in 1..Len(futures) : futures[k] = "running"}) < max_workers
    /\ futures' = [futures EXCEPT ![i] = "running"]
    /\ UNCHANGED <<gemini_configured, resume_files, early, finishedQ, yielded, session,
                   progress, ui_pc, passes>>
    /\ UNCHANGED <<backendVars, scoreVars, runVars>>

\* process_resume returns or raises in its worker thread
WorkerFinish(i) ==
    /\ i \in 1..Len(futures)
    /\ futures[i] = "running"
    /\ futures' = [futures EXCEPT
                      ![i] = IF process_resume_raises(resume_files[i]) THEN "failed" ELSE "done"]
    /\ finishedQ' = IF ui_pc = "collecting" THEN Append(finishedQ, i) ELSE finishedQ
    /\ UNCHANGED <<gemini_configured, resume_files, early, yielded, session, progress,
                   ui_pc, passes>>
    /\ UNCHANGED <<backendVars, scoreVars, runVars>>

\* the main thread enters as_completed(futures): the futures that are
\* finished by now are handed out first, in no particular order
EnterAsCompleted ==
    /\ ui_pc = "submitted"
    /\ ui_pc' = "collecting"
    /\ early' = {i \in 1..Len(futures) : Finished(i)}
    /\ UNCHANGED <<gemini_configured, resume_files, futures, finishedQ, yielded, session,
                   progress, passes>>
    /\ UNCHANGED <<backendVars, scoreVars, runVars>>

\* the futures as_completed can hand out next
NextCompleted ==
    IF early \ Range(yielded) # {} THEN early \ Range(yielded)
    ELSE IF finishedQ # <<>> THEN {Head(finishedQ)}
    ELSE {}

\* the label under which the i-th result of the as_completed loop is filed
\* (i counts from 0); f is the submission index of the future
StoreLabel(i, f) == CandidateId(i)

\* one iteration of "for i, future in enumerate(as_completed(futures))"
Collect(f) ==
    /\ ui_pc = "collecting"
    /\ f \in NextCompleted
    /\ LET i == Len(yielded)
           candidate_id == StoreLabel(i, f)
           r == process_resume(resume_files[f], CandidateId(f - 1))
       IN IF futures[f] = "failed"
          THEN \* future.result() re-raises and the script run ends
               /\ ui_pc' = "aborted"
               /\ UNCHANGED <<session, progress>>
          ELSE /\ session' =
                     [anonymized_resumes |->
                          Put(session.anonymized_resumes, candidate_id, r.anonymized_text),
                      original_resumes |->
                          Put(session.original_resumes, candidate_id, r.original_text),
                      resume_names |->
                          Put(session.resume_names, candidate_id, r.resume_name),
                      original_file_data |->
                          Put(session.original_file_data, candidate_id, r.file_data)]
               /\ progress' = Append(progress, [done |-> i + 1, total |-> Len(resume_files)])
               /\ ui_pc' = IF i + 1 = Len(resume_files) THEN "done" ELSE "collecting"
    /\ yielded' = Append(yielded, f)
    /\ finishedQ' = IF f \in early THEN finishedQ ELSE Tail(finishedQ)
    /\ UNCHANGED <<gemini_configured, resume_files, futures, early, passes>>
    /\ UNCHANGED <<backendVars, scoreVars, runVars>>

NextUI ==
    \/ \E files \in UIBatches(MaxFiles) : SubmitAll(files)
    \/ \E i \in 1..MaxFiles : WorkerStart(i)
    \/ \E i \in 1..MaxFiles : WorkerFinish(i)
    \/ EnterAsCompleted
    \/ \E f \in 1..MaxFiles : Collect(f)

InitSpecUI ==
    /\ InitBackend
    /\ InitUI
    /\ InitScoreIdle
    /\ InitRunsIdle

SpecUI == InitSpecUI /\ [][NextUI]_vars

-----------------------------------------------------------------------------
(* Scorer: the two strategies as pure functions *)

\* a model response is the sequence of its tokens; the text is their
\* concatenation
Markers == {"score", "Score", "explanation", "citations"}
Numbers == {"0.75", "-3", "7"}
Tokens == Markers \cup Numbers \cup {":", " ", "\n", ",", "good", "\""}

\* str.lower() on the marker tokens (re.IGNORECASE)
LowerTok(t) ==
    IF t = "Score" THEN "score" ELSE t

\* float(text) of a number token
NumValue(t) ==
    IF t = "0.75" THEN Frac(3, 4)
    ELSE IF t = "-3" THEN Frac(-3, 1)
    ELSE Frac(7, 1)

\* the character class [:\s]
IsSep(t) == t \in {":", " ", "\n"}

\* whitespace, as str.strip() removes it
IsSpace(t) == t \in {" ", "\n"}

\* first position from p on that holds no [:\s] token (Len + 1 if none)
SkipSeps(content, p) ==
    CHOOSE q \in p..(Len(content) + 1) :
        /\ q = Len(content) + 1 \/ ~IsSep(content[q])
        /\ \A k \in p..(q - 1) : IsSep(content[k])

\* str.strip()
Strip(s) ==
    LET keep == {k \in 1..Len(s) : ~IsSpace(s[k])}
    IN IF keep = {} THEN <<>>
       ELSE SubSeq(s, CHOOSE a \in keep : \A k \in keep : a <= k,
                      CHOOSE b \in keep : \A k \in keep : k <= b)

\* re.search(marker + r'[:\s]*(.+)', content, re.IGNORECASE | re.DOTALL):
\* group(1) of the leftmost match, <<>> standing for "no match". The group
\* needs one character: after a marker followed by separators only it is the
\* last separator, and at the very end of the text "citations?" gives up its
\* optional s to it
RestAfter(content, marker) ==
    LET at == {p \in 1..Len(content) :
                  /\ LowerTok(content[p]) = marker
                  /\ p < Len(content) \/ marker = "citations"}
    IN IF at = {} THEN <<>>
       ELSE LET p == CHOOSE a \in at : \A k \in at : a <= k
                q == SkipSeps(content, p + 1)
            IN IF q <= Len(content) THEN SubSeq(content, q, Len(content))
               ELSE IF p < Len(content) THEN <<content[Len(content)]>>
               ELSE <<"s">>

\* s.split(d) for the delimiter tokens in delims
RECURSIVE SplitOn(_, _)
SplitOn(s, delims) ==
    LET at == {k \in 1..Len(s) : s[k] \in delims}
    IN IF at = {} THEN <<s>>
       ELSE LET k == CHOOSE a \in at : \A b \in at : a <= b
            IN <<SubSeq(s, 1, k - 1)>> \o SplitOn(SubSeq(s, k + 1, Len(s)), delims)

NonEmpty(piece) == piece # <<>>

StripAll(pieces) == [k \in 1..Len(pieces) |-> Strip(pieces[k])]

\* number of characters of the tokens before position k
RECURSIVE CharsBefore(_, _)
CharsBefore(s, k) ==
    IF k <= 1 THEN 0 ELSE CharsBefore(s, k - 1) + Len(s[k - 1])

\* any(char.isdigit() for char in line[:10])
DigitInFirst10(line) ==
    \E k \in 1..Len(line) :
        /\ line[k] \in Numbers
        /\ CharsBefore(line, k) + (IF line[k] = "-3" THEN 1 ELSE 0) < 10

\* line[:200], cut at a token boundary
First200(line) ==
    SubSeq(line, 1, Cardinality({k \in 1..Len(line) : CharsBefore(line, k + 1) <= 200}))

\* LLMManager._parse_marker_response
parse_marker_response(content) ==
    LET score_at ==
            {p \in 1..Len(content) :
                /\ LowerTok(content[p]) = "score"
                /\ SkipSeps(content, p + 1) <= Len(content)
                /\ content[SkipSeps(content, p + 1)] \in Numbers}
        score ==
            IF score_at = {} THEN Zero
            ELSE LET p == CHOOSE a \in score_at : \A k \in score_at : a <= k
                 IN Clamp01(NumValue(content[SkipSeps(content, p + 1)]))
        expl_match == RestAfter(content, "explanation")
        lines == SelectSeq(StripAll(SplitOn(content, {"\n"})), NonEmpty)
        explanation ==
            IF expl_match # <<>> THEN Strip(expl_match)
            ELSE IF lines # <<>> /\ ~DigitInFirst10(lines[1]) THEN First200(lines[1])
            ELSE <<"Analysis completed">>
        citation_match == RestAfter(content, "citations")
        citations ==
            IF citation_match = <<>> THEN <<>>
            ELSE Take(SelectSeq(StripAll(SplitOn(Strip(citation_match), {";", ",", "\n"})),
                                NonEmpty), 5)
    IN [score |-> score,
        explanation |-> IF explanation # <<>> THEN explanation
                        ELSE <<"Analysis completed successfully">>,
        citations |-> citations]

SeqsUpTo(S, n) == UNION {[1..k -> S] : k \in 0..n}

\* responses in which no number token directly follows another one (the
\* concatenation would read as a single number)
Contents(n) ==
    {c \in SeqsUpTo(Tokens, n) :
        \A k \in 1..(Len(c) - 1) : ~(c[k] \in Numbers /\ c[k + 1] \in Numbers)}

\* a job text, a resume text and an order in which list() enumerates their
\* matching keywords
KeywordInputs(n) ==
    UNION {{[strategy |-> "keyword", job_desc |-> p[1], resume_text |-> p[2], order |-> o] :
               o \in Enumerations(MatchingKeywords(p[1], p[2]))} :
           p \in SeqsUpTo(Words, n) \X SeqsUpTo(Words, n)}

\* a job text with more keywords than a citation list holds
Skills == <<"java", "rust", "perl", "ruby", "scala", "swift">>

\* the job text of Skills against the resumes that name its first k skills
SkillInputs ==
    UNION {{[strategy |-> "keyword", job_desc |-> Skills,
             resume_text |-> SubSeq(Skills, 1, k), order |-> o] :
               o \in Enumerations(MatchingKeywords(Skills, SubSeq(Skills, 1, k)))} :
           k \in 4..Len(Skills)}

\* responses that list more citations than a citation list holds
LongContents ==
    {<<"citations", ":", " ", "good", d, "7", d, "good", d, "0.75", d, "good", d, "7">> :
        d \in {",", "\n"}}

\* the answers the ranking prompt asks for: a score within [0,1], an
\* explanation and a list of citations
StructuredResponses ==
    {[score |-> "0.75", explanation |-> <<"good">>, citations |-> c] :
        c \in {<<>>, <<"good">>, <<"good", "good">>}}

\* the elements of a JSON array of strings
RECURSIVE JsonStrings(_)
JsonStrings(c) ==
    IF c = <<>> THEN <<>>
    ELSE <<"\"", c[1], "\"">>
         \o (IF Len(c) > 1 THEN <<",", " ">> ELSE <<>>) \o JsonStrings(Tail(c))

\* the JSON object of the format PromptTemplates.rank_candidate prescribes
JsonText(obj) ==
    <<"{", "\"", "score", "\"", ":", " ", obj.score, ",", " ",
      "\"", "explanation", "\"", ":", " ", "\"">> \o obj.explanation
    \o <<"\"", ",", " ", "\"", "citations", "\"", ":", " ", "[">>
    \o JsonStrings(obj.citations) \o <<"]", "}">>

StructuredContents == {JsonText(obj) : obj \in StructuredResponses}

\* what the endpoint does with one POST /api/generate: the transport fails
\* (httpx raises), or a reply arrives with a status code and a body
Bodies == {"object_with_response", "object_without_response", "array", "not_json"}

StatusCodes == {200, 201, 404, 500}

Replies ==
    {[transport |-> "failed", status |-> 0, body |-> "", detail |-> "timed out"]}
    \cup {[transport |-> "ok", status |-> st, body |-> b, detail |-> ""] :
             st \in StatusCodes, b \in Bodies}

LLMResponse(success, content, error) ==
    [success |-> success, content |-> content, model |-> "mistral:7b", error |-> error]

\* a generate without its try/except: what the client or the JSON decoding
\* raises reaches the caller
generate_unguarded(reply) ==
    IF reply.transport = "failed" \/ (reply.status = 200 /\ reply.body \in {"array", "not_json"})
    THEN [requests |-> 1, raised |-> TRUE, response |-> LLMResponse(FALSE, "", "")]
    ELSE IF reply.status = 200
    THEN [requests |-> 1, raised |-> FALSE,
          response |-> LLMResponse(TRUE,
                           IF reply.body = "object_with_response" THEN "text" ELSE "", "")]
    ELSE [requests |-> 1, raised |-> FALSE,
          response |-> LLMResponse(FALSE, "", <<"Ollama API error", reply.status>>)]

\* OllamaClient.generate: one client.post inside try/except Exception.
\* response.json() raises on a body that is not JSON, result.get raises on a
\* JSON value that is not an object; both land in the except branch
generate(reply) ==
    IF reply.transport = "failed"
    THEN [requests |-> 1, raised |-> FALSE,
          response |-> LLMResponse(FALSE, "", <<"Ollama connection error", reply.detail>>)]
    ELSE IF reply.status = 200
    THEN IF reply.body = "not_json"
         THEN [requests |-> 1, raised |-> FALSE,
               response |-> LLMResponse(FALSE, "",
                                <<"Ollama connection error", "JSONDecodeError">>)]
         ELSE IF reply.body = "array"
         THEN [requests |-> 1, raised |-> FALSE,
               response |-> LLMResponse(FALSE, "",
                                <<"Ollama connection error", "AttributeError">>)]
         ELSE [requests |-> 1, raised |-> FALSE,
               response |-> LLMResponse(TRUE,
                                IF reply.body = "object_with_response" THEN "text" ELSE "",
                                "")]
    ELSE [requests |-> 1, raised |-> FALSE,
          response |-> LLMResponse(FALSE, "", <<"Ollama API error", reply.status>>)]

GenerateInputs == {[strategy |-> "generate", reply |-> r] : r \in Replies}

-----------------------------------------------------------------------------
(* Job-text condenser of src/app.py. A job text is the sequence of its       *)
(* sentences (the pieces between ". "), a sentence the sequence of its       *)
(* words; the texts carry no punctuation inside a sentence                   *)

filler_words ==
    {"the", "a", "an", "and", "or", "but", "in", "on", "at", "to", "for",
     "with", "by", "from", "of", "as", "is", "are", "was", "were", "be",
     "been", "being", "have", "has", "had", "do", "does", "did", "will",
     "would", "could", "should", "may", "might", "must", "can", "this", "that",
     "these", "those", "just", "only", "really", "very", "quite", "also",
     "then", "now", "well", "so", "however", "therefore", "furthermore",
     "moreover", "nevertheless", "nonetheless", "thus", "hence", "accordingly",
     "consequently", "meanwhile", "otherwise", "besides", "anyway", "anyhow",
     "incidentally", "naturally", "certainly", "definitely", "probably",
     "possibly", "perhaps", "maybe", "generally", "usually", "typically",
     "normally", "commonly", "regularly", "sometimes", "occasionally", "often",
     "frequently", "rarely", "seldom", "hardly", "scarcely", "barely",
     "almost", "nearly", "approximately", "roughly", "about", "around", "like",
     "such", "etc", "etcetera", "including", "along", "among", "upon",
     "within", "without", "toward", "towards", "against", "during", "since",
     "until", "after", "before", "because", "though", "although", "while",
     "whereas", "whether", "if", "unless", "till", "once", "whenever",
     "wherever", "whoever", "whichever", "whatever", "howsoever", "whysoever",
     "whatsoever", "whosoever", "whomsoever", "whosesoever"}

filler_phrases ==
    <<<<"we", "are", "looking", "for">>,
      <<"the", "ideal", "candidate">>,
      <<"in", "this", "role">>,
      <<"you", "will", "be", "responsible">>,
      <<"what", "you'll", "do">>,
      <<"your", "responsibilities">>,
      <<"equal", "opportunity", "employer">>,
      <<"eeo", "statement">>,
      <<"diversity", "and", "inclusion">>,
      <<"about", "the", "company">>,
      <<"our", "company">>,
      <<"who", "we", "are">>,
      <<"company", "culture">>,
      <<"benefits", "and", "perks">>,
      <<"what", "we", "offer">>,
      <<"compensation", "and", "benefits">>,
      <<"how", "to", "apply">>,
      <<"application", "process">>,
      <<"contact", "information">>,
      <<"travel", "requirements">>>>

\* the words of the job texts: <<lower-case form, form with a capital>>
CondWords ==
    {<<"we", "We">>, <<"are", "Are">>, <<"looking", "Looking">>, <<"for", "For">>,
     <<"a", "A">>, <<"python", "Python">>, <<"developer", "Developer">>,
     <<"equal", "Equal">>, <<"opportunity", "Opportunity">>,
     <<"employer", "Employer">>, <<"our", "Our">>, <<"company", "Company">>,
     <<"hires", "Hires">>}

\* str.lower() of a word
lower(w) ==
    IF \E p \in CondWords : p[2] = w THEN (CHOOSE p \in CondWords : p[2] = w)[1] ELSE w

\* word[0].upper() + word[1:]
upper_first(w) ==
    IF \E p \in CondWords : p[1] = w THEN (CHOOSE p \in CondWords : p[1] = w)[2] ELSE w

LowerAll(sentence) == [k \in 1..Len(sentence) |-> lower(sentence[k])]

\* the empty run between the two spaces that a removed phrase leaves behind
Gap == ""

IsWord(w) == w # Gap

\* sentence.split()
SplitWords(sentence) == SelectSeq(sentence, IsWord)

\* sentence.strip()
StripSentence(sentence) ==
    LET at == {k \in 1..Len(sentence) : IsWord(sentence[k])}
    IN IF at = {} THEN <<>>
       ELSE SubSeq(sentence, CHOOSE a \in at : \A k \in at : a <= k,
                             CHOOSE b \in at : \A k \in at : k <= b)

\* start positions of the phrase in the sentence (phrase in sentence)
Occurs(sentence, phrase) ==
    {i \in 1..(Len(sentence) - Len(phrase) + 1) :
        SubSeq(sentence, i, i + Len(phrase) - 1) = phrase}

\* sentence.replace(phrase, "", 1).strip(): the leftmost occurrence, matched
\* in the letter case of the list
RemoveFirst(sentence, phrase) ==
    LET at == Occurs(sentence, phrase)
    IN IF at = {} THEN StripSentence(sentence)
       ELSE LET i == CHOOSE a \in at : \A k \in at : a <= k
            IN StripSentence(SubSeq(sentence, 1, i - 1) \o <<Gap>>
                             \o SubSeq(sentence, i + Len(phrase), Len(sentence)))

\* the loop "for phrase in filler_phrases", from phrase k on
RECURSIVE StripPhrases(_, _, _)
StripPhrases(sentence, sentence_lower, k) ==
    IF k > Len(filler_phrases) THEN sentence
    ELSE IF Occurs(sentence_lower, filler_phrases[k]) # {}
    THEN LET cut == RemoveFirst(sentence, filler_phrases[k])
         IN StripPhrases(IF cut = <<>> THEN cut ELSE [cut EXCEPT ![1] = upper_first(@)],
                         sentence_lower, k + 1)
    ELSE StripPhrases(sentence, sentence_lower, k + 1)

\* the test of the loop "for i, word in enumerate(words)": word i is kept
KeepWord(words, i) ==
    LET word_lower == lower(words[i])
    IN IF word_lower \notin filler_words THEN TRUE
       ELSE IF word_lower \in {"and", "or", "but"} /\ i > 1 /\ i < Len(words) THEN TRUE
       ELSE word_lower \in {"with", "from", "to", "for"} /\ i > 1

FilterWords(words) ==
    LET keep == {i \in 1..Len(words) : KeepWord(words, i)}
    IN [k \in 1..Cardinality(keep) |->
           words[CHOOSE i \in keep : Cardinality({j \in keep : j <= i}) = k]]

\* the loop "for sentence in sentences", from sentence k on
RECURSIVE CondenseFrom(_, _, _)
CondenseFrom(sentences, k, filtered_sentences) ==
    IF k > Len(sentences) THEN filtered_sentences
    ELSE LET sentence == sentences[k]
             stripped == StripPhrases(sentence, LowerAll(sentence), 1)
             filtered_words == FilterWords(SplitWords(stripped))
             result == IF filtered_words # <<>> THEN filtered_words ELSE stripped
         IN IF Len(SplitWords(sentence)) < 3
            THEN CondenseFrom(sentences, k + 1, filtered_sentences)
            ELSE IF /\ filtered_sentences # <<>>
                    /\ sentence = StripSentence(filtered_sentences[Len(filtered_sentences)])
            THEN CondenseFrom(sentences, k + 1, filtered_sentences)
            ELSE IF StripSentence(result) # <<>>
            THEN CondenseFrom(sentences, k + 1, Append(filtered_sentences, result))
            ELSE CondenseFrom(sentences, k + 1, filtered_sentences)

\* preprocess_job_text: the kept sentences, runs of spaces collapsed
preprocess_job_text(text) ==
    LET filtered_sentences == CondenseFrom(text, 1, <<>>)
    IN [k \in 1..Len(filtered_sentences) |-> SplitWords(filtered_sentences[k])]

Sentences ==
    {<<"We", "are", "looking", "for", "a", "Python", "developer">>,
     <<"we", "are", "looking", "for", "our", "company", "developer">>,
     <<"Equal", "opportunity", "employer", "hires">>,
     <<"hires", "equal", "opportunity", "employer">>,
     <<"our", "company", "hires", "our", "company">>,
     <<"for", "a", "a">>,
     <<"Python", "developer">>}

CondenseInputs(n) ==
    {[strategy |-> "condense", job_text |-> t] : t \in SeqsUpTo(Sentences, n)}

-----------------------------------------------------------------------------
(* Inputs and steps of the pure functions *)

\* texts handed to the redactor: words and e-mail addresses
RedactInputs(n) ==
    {[strategy |-> "redact", text |-> t] : t \in SeqsUpTo({"Python", Email}, n)}

\* a stored job, a stored resume that carries its text, and an enumeration
\* order of their matching keywords: what one turn of the loop of
\* analyze_candidates works on
RankInputs(n) ==
    {[strategy |-> "rank", job_desc |-> i.job_desc, resume_text |-> i.resume_text,
      order |-> i.order] : i \in KeywordInputs(n)}

InitScore ==
    /\ sc_in \in KeywordInputs(MaxWords)
                   \cup RankInputs(MaxWords - 1)
                   \cup SkillInputs
                   \cup {[strategy |-> "marker", content |-> c] :
                            c \in Contents(MaxTokens) \cup LongContents
                                   \cup StructuredContents}
                   \cup RedactInputs(MaxWords)
                   \cup GenerateInputs
                   \cup CondenseInputs(MaxSentences)
    /\ sc_out = [state |-> "pending"]

\* the keyword-overlap strategy applied to the drawn pair of texts
KeywordScore ==
    /\ sc_in.strategy = "keyword"
    /\ sc_out.state = "pending"
    /\ sc_out' = [state |-> "done",
                  analysis |-> analyze_candidate(sc_in.job_desc, sc_in.resume_text,
                                                 sc_in.order)]
    /\ UNCHANGED sc_in
    /\ UNCHANGED <<backendVars, uiVars, runVars>>

\* the marker parser applied to the drawn model response
MarkerScore ==
    /\ sc_in.strategy = "marker"
    /\ sc_out.state = "pending"
    /\ sc_out' = [state |-> "done", analysis |-> parse_marker_response(sc_in.content)]
    /\ UNCHANGED sc_in
    /\ UNCHANGED <<backendVars, uiVars, runVars>>

\* anonymize_text applied to the drawn text, and again to its own result
RedactText ==
    /\ sc_in.strategy = "redact"
    /\ sc_out.state = "pending"
    /\ sc_out' = [state |-> "redacted",
                  once |-> anonymize_text(sc_in.text),
                  twice |-> anonymize_text(anonymize_text(sc_in.text))]
    /\ UNCHANGED sc_in
    /\ UNCHANGED <<backendVars, uiVars, runVars>>

\* one call of OllamaClient.generate against the drawn endpoint behaviour
Generate ==
    /\ sc_in.strategy = "generate"
    /\ sc_out.state = "pending"
    /\ sc_out' = [state |-> "generated", call |-> generate(sc_in.reply)]
    /\ UNCHANGED sc_in
    /\ UNCHANGED <<backendVars, uiVars, runVars>>

\* preprocess_job_text applied to the drawn job text
Condense ==
    /\ sc_in.strategy = "condense"
    /\ sc_out.state = "pending"
    /\ sc_out' = [state |-> "condensed", concise_text |-> preprocess_job_text(sc_in.job_text)]
    /\ UNCHANGED sc_in
    /\ UNCHANGED <<backendVars, uiVars, runVars>>

\* one turn of the loop of analyze_candidates for a resume not ranked yet:
\* the scorer is called and a CandidateRanking is built from its result
CreateRanking ==
    /\ sc_in.strategy = "rank"
    /\ sc_out.state = "pending"
    /\ LET job == [id |-> 1, text |-> sc_in.job_desc, filename |-> "text_input.txt",
                   anonymized_text |-> anonymize_text(sc_in.job_desc)]
           resume == [id |-> 2, original_filename |-> "alice.pdf",
                      extracted_text |-> sc_in.resume_text,
                      anonymized_text |-> anonymize_text(sc_in.resume_text)]
       IN sc_out' = [state |-> "ranked",
                     run |-> AnalyzeLoop(job, <<resume>>, <<sc_in.order>>, 1,
                                 [existing_rankings |-> <<>>, rankings |-> <<>>,
                                  scored |-> 0, nid |-> 2, err |-> FALSE])]
    /\ UNCHANGED sc_in
    /\ UNCHANGED <<backendVars, uiVars, runVars>>

NextScore ==
    \/ CreateRanking
    \/ KeywordScore
    \/ MarkerScore
    \/ RedactText
    \/ Generate
    \/ Condense

InitSpecScore ==
    /\ InitBackend
    /\ InitUIIdle
    /\ InitScore
    /\ InitRunsIdle

SpecScore == InitSpecScore /\ [][NextScore]_vars

-----------------------------------------------------------------------------
(* Properties of the backend *)

CurrentJobIds == {jobs[k].id : k \in 1..Len(jobs)}

ResumeIds == {resumes[k].id : k \in 1..Len(resumes)}

\* position of a resume in the stored resume list, which is the upload order
UploadPos(resume_id) ==
    CHOOSE k \in 1..Len(resumes) : resumes[k].id = resume_id

\* C2: the persisted rankings of a job hold at most one ranking for each
\* (job id, resume id) pair
C2_OneRankingPerPair ==
    \A j \in DOMAIN rankings :
        \A a, b \in 1..Len(rankings[j]) :
            (/\ rankings[j][a].job_id = rankings[j][b].job_id
             /\ rankings[j][a].resume_id = rankings[j][b].resume_id) => a = b

\* a rankings file that was extended by a second analysis run: it holds a
\* ranking of a resume of an earlier upload next to one of the current upload
C2_Witness ==
    \E j \in DOMAIN rankings :
        /\ \E a \in 1..Len(rankings[j]) : rankings[j][a].resume_id \in ResumeIds
        /\ \E b \in 1..Len(rankings[j]) : rankings[j][b].resume_id \notin ResumeIds

\* C3: an analyze_candidates call that directly follows a successful one for
\* the same job invokes the scorer zero times, returns the same rows and
\* leaves the stored rankings unchanged
C3_ReanalysisIdempotent ==
    [][(/\ resp.op = "analyze"
        /\ resp.status = 200
        /\ resp'.op = "analyze"
        /\ resp'.job_id = resp.job_id)
       => (/\ resp'.status = 200
           /\ resp'.scored = 0
           /\ resp'.rows = resp.rows
           /\ resp'.total = resp.total
           /\ rankings' = rankings)]_vars

\* the answer of a second run over two resumes: nothing was scored
C3_Witness ==
    /\ resp.op = "analyze"
    /\ resp.status = 200
    /\ resp.scored = 0
    /\ Len(resp.rows) = 2

\* C5: the list returned by analyze_candidates and by get_results is sorted
\* by score, highest first, and equal scores keep the upload order
C5_SortedByScore ==
    (resp.op \in {"analyze", "get_results"} /\ resp.status = 200) =>
        \A a, b \in 1..Len(resp.rows) :
            a < b =>
                /\ ScoreLE(resp.rows[b].score, resp.rows[a].score)
                /\ resp.rows[a].score = resp.rows[b].score =>
                       UploadPos(resp.rows[a].resume_id) < UploadPos(resp.rows[b].resume_id)

\* get_results returned two rows
C5_Witness ==
    /\ resp.op = "get_results"
    /\ resp.status = 200
    /\ Len(resp.rows) >= 2

\* C6: a persisted resume carries the text extracted from its file and the
\* redacted form of it, and a resume whose file holds every job keyword is
\* scored 1.0
C6_ResumeKeepsText ==
    /\ \A k \in 1..Len(resumes) :
           /\ resumes[k].extracted_text = uploadedText[k]
           /\ resumes[k].anonymized_text = anonymize_text(uploadedText[k])
    /\ (resp.op = "analyze" /\ resp.status = 200) =>
           \A a \in 1..Len(resp.rows) :
               LET K == FindWords(jobs[1].text) \ stopwords
                   R == FindWords(uploadedText[UploadPos(resp.rows[a].resume_id)]) \ stopwords
               IN (K # {} /\ K \subseteq R) => resp.rows[a].score = One

\* C7: the job store holds at most one job, and after a successful upload it
\* holds the job of that upload
C7_SingleJob ==
    /\ Len(jobs) <= 1
    /\ (resp.op = "upload_job" /\ resp.status = 200) =>
           (Len(jobs) = 1 /\ jobs[1].id = resp.job_id /\ jobs[1].id = nextId)

\* a job was uploaded after an earlier job had been analysed
C7_Witness ==
    /\ resp.op = "upload_job"
    /\ resp.status = 200
    /\ \E j \in DOMAIN rankings : rankings[j] # <<>>

\* C8: right after a successful upload_job_description the resume set is
\* empty and the new job has no rankings; get_results answers for the stored
\* job only, and the rankings an analysis can reuse were all created for the
\* stored job after its upload
C8_UploadResetsSession ==
    /\ (resp.op = "upload_job" /\ resp.status = 200) =>
           /\ resumes = <<>>
           /\ \A k \in 1..Len(jobs) : Len(load_rankings(jobs[k].id)) = 0
           /\ ResultRows(resp.job_id) = <<>>
    /\ \A j \in DOMAIN rankings \ {resp.job_id} :
           (resp.op = "upload_job" /\ resp.status = 200) => FindJob(j) = {}
    /\ (resp.op = "get_results" /\ resp.status = 200) => resp.job_id \in CurrentJobIds
    /\ \A j \in CurrentJobIds :
           \A a \in 1..Len(load_rankings(j)) :
               /\ load_rankings(j)[a].job_id = j
               /\ load_rankings(j)[a].id > j

\* the new job was analysed afresh while the rankings file of an earlier job
\* is still on disk
C8_Witness ==
    /\ resp.op = "analyze"
    /\ resp.status = 200
    /\ resp.scored >= 1
    /\ \E j \in DOMAIN rankings \ {resp.job_id} : rankings[j] # <<>>

\* C9: analyze_candidates for a job id that is not in the store, or with an
\* empty resume set, fails without invoking the scorer and without writing a
\* ranking
C9_ValidationBeforeWork ==
    [][(/\ resp'.op = "analyze"
        /\ (resp'.job_id \notin CurrentJobIds \/ resumes = <<>>))
       => (/\ resp'.status >= 400
           /\ resp'.scored = 0
           /\ resp'.rows = <<>>
           /\ rankings' = rankings)]_vars

\* the stored job was analysed while the resume set was empty
C9_Witness ==
    /\ resp.op = "analyze"
    /\ resp.job_id \in CurrentJobIds
    /\ resumes = <<>>
    /\ resp.status >= 400

\* C12: the redacted text the upload operations store holds no e-mail
\* address: each one in the uploaded text is replaced by [REDACTED_EMAIL]
C12_StoredTextRedacted ==
    /\ \A k \in 1..Len(jobs) :
           /\ Email \notin Range(jobs[k].anonymized_text)
           /\ jobs[k].anonymized_text =
                  [i \in 1..Len(jobs[k].text) |->
                      IF jobs[k].text[i] = Email THEN "[REDACTED_EMAIL]" ELSE jobs[k].text[i]]
    /\ \A k \in 1..Len(resumes) : Email \notin Range(resumes[k].anonymized_text)

\* C19: an upload_job_description in which a store write fails answers with
\* an error and leaves the persisted jobs and resumes as they were
C19_FailedWriteChangesNothing ==
    [][(resp'.op = "upload_job" /\ resp'.detail = "OSError")
       => (/\ resp'.status >= 400
           /\ jobs' = jobs
           /\ resumes' = resumes)]_vars

\* C20: analyze_candidates answers 404 for a job id that is not in the
\* store and 400 for a stored job with an empty resume set;
\* upload_job_description answers 400 when neither file nor text is given
C20_ValidationStatusCodes ==
    /\ (resp.op = "analyze" /\ FindJob(resp.job_id) = {}) =>
           (resp.status = 404 /\ resp.detail = "Job description not found")
    /\ (resp.op = "analyze" /\ FindJob(resp.job_id) # {} /\ resumes = <<>>) =>
           (resp.status = 400 /\ resp.detail = "No resumes uploaded yet")
    /\ (resp.op = "upload_job" /\ resp.detail = "Either file or text must be provided") =>
           resp.status = 400

\* C17: with analyze_candidates requests for one job in flight together, no
\* (job, resume) pair is handed to the scorer twice, and when a request has
\* answered the store holds one ranking for each pair it covers
C17_NoPairScoredTwice ==
    /\ \A a, b \in 1..Len(scoreLog) : scoreLog[a] = scoreLog[b] => a = b
    /\ \A j \in DOMAIN rankings :
           \A a, b \in 1..Len(rankings[j]) :
               rankings[j][a].resume_id = rankings[j][b].resume_id => a = b
    /\ \A r \in 1..MaxRuns :
           (runs[r].pc = "done" /\ runs[r].status = 200) =>
               \A k \in 1..Len(runs[r].resumes) :
                   Cardinality({a \in 1..Len(load_rankings(runs[r].job_id)) :
                       load_rankings(runs[r].job_id)[a].resume_id = runs[r].resumes[k].id}) = 1

\* two requests for the same job were in flight together and both answered
\* 200 over the same resumes; the scorer ran once for each of two resumes
C17_Witness ==
    \E r, q \in 1..MaxRuns :
        /\ r # q
        /\ q \in runs[r].overlaps
        /\ runs[r].pc = "done" /\ runs[r].status = 200
        /\ runs[q].pc = "done" /\ runs[q].status = 200
        /\ runs[r].job_id = runs[q].job_id
        /\ runs[r].resumes = runs[q].resumes
        /\ Len(runs[r].resumes) = 2
        /\ runs[r].acc.scored + runs[q].acc.scored = 2

-----------------------------------------------------------------------------
(* Properties of the monolithic UI *)

\* C1: after a pass the resume at upload position i is filed under
\* Candidate00i in all four maps, whatever the completion order was
C1_LabelByUploadOrder ==
    ui_pc = "done" =>
        \A i \in 1..Len(resume_files) :
            LET id == CandidateId(i - 1)
                r == process_resume(resume_files[i], id)
            IN /\ id \in DOMAIN session.resume_names
               /\ session.resume_names[id] = r.resume_name
               /\ session.original_resumes[id] = r.original_text
               /\ session.original_file_data[id] = r.file_data
               /\ session.anonymized_resumes[id] = r.anonymized_text

\* C4: a resume whose processing fails does not abort the batch: the pass
\* ends with one reported unit and one stored entry per uploaded resume
C4_FailureDoesNotAbortBatch ==
    ui_pc \in {"done", "aborted"} =>
        /\ ui_pc = "done"
        /\ Len(progress) = Len(resume_files)
        /\ \A i \in 1..Len(resume_files) :
               \E id \in DOMAIN session.resume_names :
                   session.resume_names[id] = resume_files[i].name

\* C16: during a pass over N resumes the reported count takes the values
\* 1, 2, ..., N in that order, one report for each finished unit, whatever
\* the completion order was
C16_ProgressCountsUp ==
    /\ Len(progress) <= Len(resume_files)
    /\ \A k \in 1..Len(progress) :
           progress[k] = [done |-> k, total |-> Len(resume_files)]
    /\ ui_pc \in {"done", "aborted"} => Len(progress) = Len(resume_files)

-----------------------------------------------------------------------------
(* Properties of the scorer *)

\* C10: the score a strategy returns, which analyze_candidates copies into
\* the ranking, lies in [0.0, 1.0]
C10_ScoreInUnitInterval ==
    sc_out.state = "done" =>
        /\ ScoreLE(Zero, sc_out.analysis.score)
        /\ ScoreLE(sc_out.analysis.score, One)

\* the marker parser met a score token above 1.0 and returned 1.0
C10_Witness ==
    /\ sc_out.state = "done"
    /\ sc_in.strategy = "marker"
    /\ \E k \in 1..(Len(sc_in.content) - 1) :
           /\ LowerTok(sc_in.content[k]) = "score"
           /\ sc_in.content[k + 1] = "7"
    /\ sc_out.analysis.score = One


\* the case-folded words of length >= 4 of a text, minus the stopwords
KeywordSet(text) ==
    {w \in {IF text[i] = "Python" THEN "python" ELSE text[i] :
                i \in {k \in 1..Len(text) : Len(text[k]) >= 4}} :
        w \notin stopwords}

C13_RedactIdempotent ==
    sc_out.state = "redacted" => sc_out.twice = sc_out.once

\* a text with two e-mail addresses went through the redactor twice
C13_Witness ==
    /\ sc_out.state = "redacted"
    /\ sc_in.text = <<Email, Email>>
    /\ sc_out.twice = sc_out.once


\* an explanation that says the analysis could not be parsed
SaysNotParsed(explanation) ==
    \E k \in 1..Len(explanation) :
        explanation[k] \in {"could not be parsed", "Analysis could not be parsed"}

\* C14: for a response without a score, explanation or citations marker the
\* parser returns score 0.0 and an explanation stating that the analysis
\* could not be parsed
C14_UnparseableRecovered ==
    (/\ sc_out.state = "done"
     /\ sc_in.strategy = "marker"
     /\ \A k \in 1..Len(sc_in.content) : sc_in.content[k] \notin Markers)
    => (/\ sc_out.analysis.score = Zero
        /\ SaysNotParsed(sc_out.analysis.explanation))


\* C15: a call of OllamaClient.generate issues one request and returns; on
\* a transport failure, a status outside 2xx or a body that is not JSON the
\* result is unsuccessful and its error carries the failure detail or the
\* status
C15_GenerateNeverRaises ==
    sc_out.state = "generated" =>
        LET reply == sc_in.reply
            call == sc_out.call
        IN /\ call.requests = 1
           /\ ~call.raised
           /\ reply.transport = "failed" =>
                  /\ ~call.response.success
                  /\ call.response.error = <<"Ollama connection error", reply.detail>>
           /\ (reply.transport = "ok" /\ reply.status \notin 200..299) =>
                  /\ ~call.response.success
                  /\ call.response.error = <<"Ollama API error", reply.status>>
           /\ (reply.transport = "ok" /\ reply.body = "not_json") =>
                  /\ ~call.response.success
                  /\ call.response.error # ""

\* the endpoint answered 200 with a body that is not JSON
C15_Witness ==
    /\ sc_out.state = "generated"
    /\ sc_in.reply.status = 200
    /\ sc_in.reply.body = "not_json"
    /\ ~sc_out.call.response.success


\* the phrase stands in the sentence, in whatever letter case
HasPhrase(sentence, phrase) == Occurs(LowerAll(sentence), phrase) # {}

\* C18: the condensed job text holds none of the listed boilerplate phrases,
\* in whatever letter case they stood in the job text
C18_BoilerplateRemoved ==
    sc_out.state = "condensed" =>
        \A k \in 1..Len(sc_out.concise_text) :
            \A p \in 1..Len(filler_phrases) :
                ~HasPhrase(sc_out.concise_text[k], filler_phrases[p])

\* C23: both strategies return at most 5 citations; the citations of the
\* keyword-overlap strategy are keywords of both the job text and the resume
\* text, and there are min(5, number of matched keywords) of them
C23_AtMostFiveCitations ==
    sc_out.state = "done" =>
        LET citations == sc_out.analysis.citations
        IN /\ Len(citations) <= 5
           /\ sc_in.strategy = "keyword" =>
                  LET matched == KeywordSet(sc_in.job_desc) \cap KeywordSet(sc_in.resume_text)
                  IN /\ \A k \in 1..Len(citations) : citations[k] \in matched
                     /\ Len(citations) = (IF Cardinality(matched) < 5
                                          THEN Cardinality(matched) ELSE 5)

\* the keyword-overlap strategy has cut six matched keywords down to five
C23_Witness ==
    /\ sc_out.state = "done"
    /\ sc_in.strategy = "keyword"
    /\ Cardinality(KeywordSet(sc_in.job_desc) \cap KeywordSet(sc_in.resume_text)) = 6
    /\ Len(sc_out.analysis.citations) = 5

\* C24: generate reports success only for a reply of the shape
\* {response: text}; a 200 reply whose body has no response field is an
\* error, not a successful empty text
C24_SuccessOnlyWithResponseField ==
    (sc_out.state = "generated" /\ sc_out.call.response.success) =>
        /\ sc_in.reply.transport = "ok"
        /\ sc_in.reply.body = "object_with_response"

\* C22: a response in the structured shape the ranking prompt asks for is
\* parsed to exactly its score, its explanation and its list of citations
C22_StructuredResponseParsed ==
    (sc_out.state = "done" /\ sc_in.strategy = "marker") =>
        \A obj \in StructuredResponses :
            sc_in.content = JsonText(obj) =>
                /\ sc_out.analysis.score = NumValue(obj.score)
                /\ sc_out.analysis.explanation = obj.explanation
                /\ sc_out.analysis.citations =
                       [k \in 1..Len(obj.citations) |-> <<obj.citations[k]>>]

-----------------------------------------------------------------------------
(* Properties of the store: rankings, truncation, failing writes *)

\* C25: after a successful upload_resumes the store holds exactly the
\* resumes of this call, and the rankings of the current job, which
\* list_jobs counts as candidates_count, hold no ranking of a resume of an
\* earlier upload
C25_UploadClearsRankings ==
    (resp.op = "upload_resumes" /\ resp.status = 200) =>
        /\ Len(resumes) = Len(resp.rows)
        /\ \A k \in 1..Len(resumes) : resumes[k].id = resp.rows[k].resume_id
        /\ \A j \in CurrentJobIds :
               \A k \in 1..Len(load_rankings(j)) :
                   load_rankings(j)[k].resume_id \in ResumeIds

\* C27: a ranking is never mutated after its creation: a ranking of the
\* store that is still in the store after a step has the same job id, resume
\* id, score, explanation, citations, creation time and method tag
C27_RankingNeverMutated ==
    [][\A j \in DOMAIN rankings : \A k \in 1..Len(rankings[j]) :
          \A j2 \in DOMAIN rankings' : \A k2 \in 1..Len(rankings'[j2]) :
              rankings'[j2][k2].id = rankings[j][k].id =>
                  rankings'[j2][k2] = rankings[j][k]]_vars

\* an analysis has scored a new resume and written its ranking to a file
\* together with the rankings of an earlier run
C27_Witness ==
    /\ resp.op = "analyze"
    /\ resp.status = 200
    /\ resp.scored >= 1
    /\ Len(load_rankings(resp.job_id)) > resp.scored

\* what load_rankings reads for a job after the step
LoadedAfter(j) == IF j \in DOMAIN rankings' THEN rankings'[j] ELSE <<>>

\* C29: analyze_candidates is all-or-nothing: a run that ends with an error
\* leaves the persisted rankings as they were before it, a run that ends
\* successfully leaves a ranking for every resume of the store
C29_AnalysisAllOrNothing ==
    [][resp'.op = "analyze" =>
          /\ resp'.status >= 400 =>
                 \A j \in DOMAIN rankings \cup DOMAIN rankings' :
                     LoadedAfter(j) = load_rankings(j)
          /\ resp'.status = 200 =>
                 \A k \in 1..Len(resumes') :
                     \E m \in 1..Len(LoadedAfter(resp'.job_id)) :
                         LoadedAfter(resp'.job_id)[m].resume_id = resumes'[k].id]_vars

\* score of the ranking the rankings file of job j holds for a resume
StoredScore(j, resume_id) ==
    LET rks == load_rankings(j)
    IN rks[CHOOSE m \in 1..Len(rks) : rks[m].resume_id = resume_id].score

\* place of a resume among the stored resumes ranked for job j, by score,
\* the earlier of two resumes of equal score first (Pos tells which of two
\* resumes is the earlier one)
PlaceOf(j, resume_id, among, Pos(_)) ==
    Cardinality({b \in among :
        \/ ScoreGT(StoredScore(j, b), StoredScore(j, resume_id))
        \/ /\ StoredScore(j, b) = StoredScore(j, resume_id)
           /\ Pos(b) < Pos(resume_id)}) + 1

\* position of the ranking of a resume in the rankings file of job j
FilePos(j, resume_id) ==
    CHOOSE m \in 1..Len(load_rankings(j)) : load_rankings(j)[m].resume_id = resume_id

\* C26: truncation keeps a prefix of the ranking. analyze_candidates counts
\* every resume of the store in total_candidates, holds each of them once in
\* the full ranking and returns its first min(10, total) entries; get_results
\* with a limit n >= 0 returns the first min(n, number of rows) rows
C26_TruncationKeepsPrefix ==
    /\ (resp.op = "analyze" /\ resp.status = 200) =>
           /\ resp.total = Len(resumes)
           /\ \A k \in 1..Len(resumes) :
                  Cardinality({m \in 1..Len(load_rankings(resp.job_id)) :
                      load_rankings(resp.job_id)[m].resume_id = resumes[k].id}) = 1
           /\ Len(resp.rows) = (IF resp.total < 10 THEN resp.total ELSE 10)
           /\ \A k \in 1..Len(resp.rows) :
                  /\ resp.rows[k].resume_id \in ResumeIds
                  /\ PlaceOf(resp.job_id, resp.rows[k].resume_id, ResumeIds, UploadPos) = k
    /\ (resp.op = "get_results" /\ resp.status = 200 /\ resp.limit >= 0) =>
           LET j == resp.job_id
               ranked == {b \in ResumeIds :
                             \E m \in 1..Len(load_rankings(j)) :
                                 load_rankings(j)[m].resume_id = b}
               Pos(b) == FilePos(j, b)
           IN /\ Len(resp.rows) = (IF resp.limit < Cardinality(ranked)
                                   THEN resp.limit ELSE Cardinality(ranked))
              /\ \A k \in 1..Len(resp.rows) :
                     /\ resp.rows[k].resume_id \in ranked
                     /\ PlaceOf(j, resp.rows[k].resume_id, ranked, Pos) = k

\* an analysis over more than ten resumes has answered with ten rows
C26_Witness ==
    /\ resp.op = "analyze"
    /\ resp.status = 200
    /\ resp.total > 10
    /\ Len(resp.rows) = 10

\* C28: in the rows of get_results the rank agrees with the order: the first
\* row has rank 1, the ranks never decrease down the list, and two rows have
\* the same rank exactly when they have the same score
C28_RankAgreesWithOrder ==
    (resp.op = "get_results" /\ resp.status = 200 /\ resp.rows # <<>>) =>
        /\ resp.rows[1].rank = 1
        /\ \A k, m \in 1..Len(resp.rows) :
               /\ k < m => resp.rows[k].rank <= resp.rows[m].rank
               /\ resp.rows[k].rank = resp.rows[m].rank
                      <=> resp.rows[k].score = resp.rows[m].score

\* get_results has answered with the rows of two resumes
C28_Witness ==
    /\ resp.op = "get_results"
    /\ resp.status = 200
    /\ Len(resp.rows) >= 2

-----------------------------------------------------------------------------
(* Properties of the session maps of the monolithic UI *)

\* C30: after every pass over N uploaded resumes the four session maps have
\* the same key set, which is exactly Candidate001 .. Candidate00N, also
\* when an earlier pass of the session processed more resumes
C30_SessionKeysMatchUpload ==
    ui_pc = "done" =>
        LET labels == {CandidateId(i - 1) : i \in 1..Len(resume_files)}
        IN /\ DOMAIN session.anonymized_resumes = labels
           /\ DOMAIN session.original_resumes = labels
           /\ DOMAIN session.resume_names = labels
           /\ DOMAIN session.original_file_data = labels

====
